---- MODULE Spec2Model ----
(***************************************************************************)
(* SharedPtr<T> / WeakPtr<T> and their control blocks (src/shared_ptr.hpp). *)
(*                                                                         *)
(* State: the control blocks on the heap and the handles a client holds.   *)
(* One action per member function, taken by a single-threaded client in    *)
(* any order.  A handle may be of type SharedPtr<Base> or                  *)
(* SharedPtr<Derived> (a Derived pointer converts to a Base pointer);     *)
(* every WeakPtr is a WeakPtr<Base>.                                       *)
(*                                                                         *)
(* A block whose release_weak() has run is freed memory.  Its fields have  *)
(* no value any more: an operation that reads them through a dangling      *)
(* handle reads any value (the read is undefined behaviour), what it       *)
(* writes there is lost, and the step is marked last.uaf.  A member call   *)
(* through a null control_block_ is marked last.nullDeref.                 *)
(***************************************************************************)
EXTENDS Integers, FiniteSets, Sequences, TLC

\* ------------------------------------------------------------------ bounds
MaxBase    == 2   \* SharedPtr<Base> variables the client has
MaxDerived == 1   \* SharedPtr<Derived> variables the client has
MaxWeak    == 2   \* WeakPtr<Base> variables the client has
MaxBlocks  == 2   \* control blocks allocated over a run
CountBits  == 3   \* width of size_t in the model: counters are taken % 2^CountBits
CallCap    == 2   \* release_shared / release_weak calls counted per block (saturating)
MaxOps     == 5   \* operations the client performs in a run

Null == 0         \* nullptr

SharedIds == 1..(MaxBase + MaxDerived)
WeakIds   == 1..MaxWeak
Blocks    == 1..MaxBlocks
Modulus   == 2 ^ CountBits
Counters  == 0..(Modulus - 1)

VARIABLES
    sp,      \* sp[i]: SharedPtr variable i: alive (constructed, not destroyed), control_block_
    wp,      \* wp[w]: WeakPtr variable w: alive, control_block_
    blocks,  \* blocks[b]: the control block at address b
    hist,    \* hist[b]: calls made on block b so far, and whether it was given an object
    last,    \* the member function executed by the last step
    ops,     \* the number of operations executed so far
    exc      \* the exception the last step let propagate to the client, if any

vars == <<sp, wp, blocks, hist, last, ops, exc>>

\* ------------------------------------------------------------ control block
\* Storage never handed out by the allocator, and storage given back to it.
Unallocated == [st |-> "unallocated", pointer |-> FALSE,
                shared_count |-> 0, weak_count |-> 0]
Freed == [st |-> "freed", pointer |-> FALSE,
          shared_count |-> 0, weak_count |-> 0]

\* Storage handed out by allocate() in which no block was ever constructed.
Raw == [st |-> "raw", pointer |-> FALSE,
        shared_count |-> 0, weak_count |-> 0]

\* BaseControlBlock(T* ptr): pointer(ptr), shared_count{1}, weak_count{0}.
\* ControlBlock (pointer to an object elsewhere, a deleter) and BlockVault (the
\* object in the block) add no state that an operation below reads.
BaseControlBlock(ptr) ==
    [st |-> "live", pointer |-> ptr, shared_count |-> 1, weak_count |-> 0]

\* What a read of block b's fields yields: the fields, or anything once b is freed.
\* The code only tests a counter against 0, as read or after subtracting 1, so of
\* every value a freed counter may read as, these give every outcome.
Garbage == {0, 1, 2}

Read(bs, b) ==
    IF bs[b].st = "live"
    THEN {bs[b]}
    ELSE [st : {"freed"}, pointer : BOOLEAN,
          shared_count : Garbage, weak_count : Garbage]

\* The effect of a member function on a block: its fields afterwards and the
\* number of release_shared() / release_weak() calls it made.
Effect(f, nShared, nWeak) == [blk |-> f, rs |-> nShared, rw |-> nWeak]

increase_shared_count(f) ==
    Effect([f EXCEPT !.shared_count = (f.shared_count + 1) % Modulus], 0, 0)

increase_weak_count(f) ==
    Effect([f EXCEPT !.weak_count = (f.weak_count + 1) % Modulus], 0, 0)

\* ControlBlock::release_shared: deleter(pointer); pointer = nullptr.
\* BlockVault::release_shared: destroy(value); pointer = nullptr.
release_shared(f) == [f EXCEPT !.pointer = FALSE]

\* A variant that releases the block with the object, whatever weak_count is.
decrease_shared_counter_ignoring_weak(f) ==
    LET g == [f EXCEPT !.shared_count = (f.shared_count + Modulus - 1) % Modulus]
    IN  IF g.shared_count = 0
        THEN Effect(release_shared(g), 1, 1)
        ELSE Effect(g, 0, 0)

decrease_shared_counter(f) ==
    LET g == [f EXCEPT !.shared_count = (f.shared_count + Modulus - 1) % Modulus]
    IN  IF g.shared_count = 0
        THEN Effect(release_shared(g), 1, IF g.weak_count = 0 THEN 1 ELSE 0)
        ELSE Effect(g, 0, 0)

\* A variant in which the last WeakPtr releases the object too.
decrease_weak_counter_releasing_object(f) ==
    LET g == [f EXCEPT !.weak_count = (f.weak_count + Modulus - 1) % Modulus]
    IN  IF g.shared_count = 0 /\ g.weak_count = 0
        THEN Effect(g, 1, 1)
        ELSE Effect(g, 0, 0)

decrease_weak_counter(f) ==
    LET g == [f EXCEPT !.weak_count = (f.weak_count + Modulus - 1) % Modulus]
    IN  IF g.shared_count = 0 /\ g.weak_count = 0
        THEN Effect(g, 0, 1)
        ELSE Effect(g, 0, 0)

\* if (control_block_ != nullptr && control_block_->pointer != nullptr)
\*   control_block_->increase_shared_count();
IncreaseIfObject(f) == IF f.pointer THEN increase_shared_count(f) ELSE Effect(f, 0, 0)

\* A read of the block's fields that changes nothing.
Peek(f) == Effect(f, 0, 0)

\* The member function, or guarded call, named fn applied to the fields f.
Member(fn, f) ==
    CASE fn = "increase_shared_count"   -> increase_shared_count(f)
      [] fn = "increase_weak_count"     -> increase_weak_count(f)
      [] fn = "decrease_shared_counter" -> decrease_shared_counter(f)
      [] fn = "decrease_weak_counter"   -> decrease_weak_counter(f)
      [] fn = "IncreaseIfObject"        -> IncreaseIfObject(f)
      [] fn = "Peek"                    -> Peek(f)

\* ------------------------------------------------------------------- heap
Sat(n) == IF n > CallCap THEN CallCap ELSE n

Heap(bs, hs, u, n) == [blocks |-> bs, hist |-> hs, uaf |-> u, nullDeref |-> n]

Cur == Heap(blocks, hist, FALSE, FALSE)

\* A member call through a null control_block_.
NullCall(H) == [H EXCEPT !.nullDeref = TRUE]

\* Heap H after a member function with effect e ran on block b.  release_weak()
\* gives the storage back; a write to storage already given back is lost.
Commit(H, b, e) ==
    LET dangling == H.blocks[b].st # "live"
    IN  Heap([H.blocks EXCEPT ![b] = IF dangling \/ e.rw > 0 THEN Freed ELSE e.blk],
             [H.hist EXCEPT ![b].release_shared = Sat(@ + e.rs),
                            ![b].release_weak = Sat(@ + e.rw)],
             H.uaf \/ dangling, H.nullDeref)

HasRoom == \E b \in Blocks : blocks[b].st = "unallocated"

\* The address the allocator hands out next.
NextBlock == CHOOSE b \in Blocks :
    /\ blocks[b].st = "unallocated"
    /\ \A c \in Blocks : c < b => blocks[c].st # "unallocated"

\* Heap H with a fresh block at address b.
Allocate(H, b, ptr) ==
    Heap([H.blocks EXCEPT ![b] = BaseControlBlock(ptr)],
         [H.hist EXCEPT ![b].object = ptr],
         H.uaf, H.nullDeref)

\* The heaps a call of member function fn (an effect on the fields read) on block
\* cb may leave; no call when guarded by control_block_ != nullptr and cb is null.
Call(H, cb, fn) ==
    IF cb = Null THEN {H} ELSE {Commit(H, cb, Member(fn, f)) : f \in Read(H.blocks, cb)}

\* ----------------------------------------------------------------- handles
Handle(cb) == [alive |-> TRUE, control_block_ |-> cb]
NoHandle   == [alive |-> FALSE, control_block_ |-> Null]

TypeOf(i) == IF i <= MaxBase THEN "Base" ELSE "Derived"

\* dynamic_cast<BaseControlBlock<T>*>(BaseControlBlock<Y>*): the block classes of
\* two different types are unrelated, so the cast of a block of another type fails.
DynamicCast(cb, from, to) == IF from = to THEN cb ELSE Null

\* The cast reads the block's type information: of a freed block, a dangling read.
Cast(H, cb) ==
    IF cb # Null /\ H.blocks[cb].st # "live" THEN [H EXCEPT !.uaf = TRUE] ELSE H

\* A variable about to be declared: the first one of its type not yet in scope.
FreshShared(i) ==
    /\ ~sp[i].alive
    /\ \A j \in SharedIds : (j < i /\ TypeOf(j) = TypeOf(i)) => sp[j].alive

FreshWeak(w) ==
    /\ ~wp[w].alive
    /\ \A v \in WeakIds : v < w => wp[v].alive

\* A variant without the identity check.
DistinctUnchecked(i, j) == TRUE

\* this != &other
Distinct(i, j) == i # j

\* dst: the handle the operation is called on or constructs; src: its argument (0: none).
Op(name, dst, src, H) ==
    [op |-> name, dst |-> dst, src |-> src, uaf |-> H.uaf, nullDeref |-> H.nullDeref]

\* No exception; an exception thrown at step `at` ("allocate": by the allocation,
\* "construct": by a constructor run in the storage at address b) of an operation
\* given the raw pointer ptr, which called the deleter on it n times on its way out.
NoException == [at |-> "none", block |-> Null, ptr |-> FALSE, deleter |-> 0]
Exception(at, b, ptr, n) == [at |-> at, block |-> b, ptr |-> ptr, deleter |-> n]

\* The step's result: the heap, and the last operation.
Done(name, dst, src, H) ==
    /\ blocks' = H.blocks
    /\ hist' = H.hist
    /\ last' = Op(name, dst, src, H)
    /\ ops' = ops + 1
    /\ exc' = NoException

\* The result of a step that throws e: the variable being declared is not
\* constructed, and the client catches e and goes on.
Thrown(name, dst, H, e) ==
    /\ blocks' = H.blocks
    /\ hist' = H.hist
    /\ last' = Op(name, dst, 0, H)
    /\ ops' = ops + 1
    /\ exc' = e
    /\ UNCHANGED <<sp, wp>>

\* SharedPtr::get() and SharedPtr::use_count(), of a handle whose block is not freed.
get(i) ==
    IF sp[i].control_block_ = Null THEN FALSE ELSE blocks[sp[i].control_block_].pointer

use_count(i) ==
    IF sp[i].control_block_ = Null THEN 0 ELSE blocks[sp[i].control_block_].shared_count

Init ==
    /\ sp = [i \in SharedIds |-> NoHandle]
    /\ wp = [w \in WeakIds |-> NoHandle]
    /\ blocks = [b \in Blocks |-> Unallocated]
    /\ hist = [b \in Blocks |-> [object |-> FALSE, release_shared |-> 0, release_weak |-> 0]]
    /\ last = [op |-> "main", dst |-> 0, src |-> 0, uaf |-> FALSE, nullDeref |-> FALSE]
    /\ ops = 0
    /\ exc = NoException

\* A run ends at its first undefined operation: nothing is defined after it.
Defined == ~last.uaf /\ ~last.nullDeref

\* The client goes on while it has operations left and the run is defined.
Running == ops < MaxOps /\ Defined

\* -------------------------------------------------------------- SharedPtr
\* SharedPtr() / SharedPtr(nullptr)
SharedDefault(i) ==
    /\ Running
    /\ FreshShared(i)
    /\ sp' = [sp EXCEPT ![i] = Handle(Null)]
    /\ Done("SharedPtr()", i, 0, Cur)
    /\ UNCHANGED wp

\* SharedPtr(Y* ptr), SharedPtr(Y* ptr, Deleter), SharedPtr(Y* ptr, Deleter, Allocator):
\* a new ControlBlock for ptr, which may be null.
SharedFromRaw(i, ptr) ==
    /\ Running
    /\ FreshShared(i)
    /\ HasRoom
    /\ sp' = [sp EXCEPT ![i] = Handle(NextBlock)]
    /\ Done("SharedPtr(ptr)", i, 0, Allocate(Cur, NextBlock, ptr))
    /\ UNCHANGED wp

\* auto p = MakeShared<T>(args) / AllocateShared<T>(alloc, args): a new BlockVault.
MakeShared(i) ==
    /\ Running
    /\ FreshShared(i)
    /\ HasRoom
    /\ sp' = [sp EXCEPT ![i] = Handle(NextBlock)]
    /\ Done("MakeShared", i, 0, Allocate(Cur, NextBlock, TRUE))
    /\ UNCHANGED wp

\* SharedPtr(const SharedPtr& other)
SharedCopy(i, j) ==
    /\ Running
    /\ FreshShared(i)
    /\ sp[j].alive
    /\ TypeOf(i) = TypeOf(j)
    /\ sp' = [sp EXCEPT ![i] = Handle(sp[j].control_block_)]
    /\ \E H \in Call(Cur, sp[j].control_block_, "IncreaseIfObject") :
         Done("SharedPtr(const&)", i, j, H)
    /\ UNCHANGED wp

\* SharedPtr(const SharedPtr<Y>& other), Y another type than T
SharedConvCopy(i, j) ==
    /\ Running
    /\ FreshShared(i)
    /\ sp[j].alive
    /\ TypeOf(i) = "Base" /\ TypeOf(j) = "Derived"
    /\ LET cb == DynamicCast(sp[j].control_block_, TypeOf(j), TypeOf(i))
       IN  /\ sp' = [sp EXCEPT ![i] = Handle(cb)]
           /\ \E H \in Call(Cast(Cur, sp[j].control_block_), cb, "IncreaseIfObject") :
                Done("SharedPtr(const<Y>&)", i, j, H)
    /\ UNCHANGED wp

\* SharedPtr(SharedPtr&& other)
SharedMove(i, j) ==
    /\ Running
    /\ FreshShared(i)
    /\ sp[j].alive
    /\ TypeOf(i) = TypeOf(j)
    /\ sp' = [sp EXCEPT ![i] = Handle(sp[j].control_block_),
                        ![j] = Handle(Null)]
    /\ Done("SharedPtr(&&)", i, j, Cur)
    /\ UNCHANGED wp

\* SharedPtr(SharedPtr<Y>&& other), Y another type than T
SharedConvMove(i, j) ==
    /\ Running
    /\ FreshShared(i)
    /\ sp[j].alive
    /\ TypeOf(i) = "Base" /\ TypeOf(j) = "Derived"
    /\ sp' = [sp EXCEPT
                ![i] = Handle(DynamicCast(sp[j].control_block_, TypeOf(j), TypeOf(i))),
                ![j] = Handle(Null)]
    /\ Done("SharedPtr(<Y>&&)", i, j, Cast(Cur, sp[j].control_block_))
    /\ UNCHANGED wp

\* operator=(const SharedPtr& other)
SharedCopyAssign(i, j) ==
    /\ Running
    /\ sp[i].alive /\ sp[j].alive
    /\ TypeOf(i) = TypeOf(j)
    /\ IF Distinct(i, j)
       THEN /\ sp' = [sp EXCEPT ![i] = Handle(sp[j].control_block_)]
            /\ \E H1 \in Call(Cur, sp[i].control_block_, "decrease_shared_counter") :
               \E H2 \in Call(H1, sp[j].control_block_, "increase_shared_count") :
                 Done("operator=(const&)", i, j, H2)
       ELSE /\ sp' = sp
            /\ Done("operator=(const&)", i, j, Cur)
    /\ UNCHANGED wp

\* operator=(const SharedPtr<Y>& other), Y another type than T
SharedConvCopyAssign(i, j) ==
    /\ Running
    /\ sp[i].alive /\ sp[j].alive
    /\ TypeOf(i) = "Base" /\ TypeOf(j) = "Derived"
    /\ LET cb == DynamicCast(sp[j].control_block_, TypeOf(j), TypeOf(i))
       IN  /\ sp' = [sp EXCEPT ![i] = Handle(cb)]
           /\ \E H1 \in Call(Cur, sp[i].control_block_, "decrease_shared_counter") :
              \E H2 \in Call(Cast(H1, sp[j].control_block_), cb, "increase_shared_count") :
                Done("operator=(const<Y>&)", i, j, H2)
    /\ UNCHANGED wp

\* operator=(SharedPtr&& other)
SharedMoveAssign(i, j) ==
    /\ Running
    /\ sp[i].alive /\ sp[j].alive
    /\ TypeOf(i) = TypeOf(j)
    /\ IF Distinct(i, j)
       THEN /\ sp' = [sp EXCEPT ![i] = Handle(sp[j].control_block_),
                                ![j] = Handle(Null)]
            /\ \E H \in Call(Cur, sp[i].control_block_, "decrease_shared_counter") :
                 Done("operator=(&&)", i, j, H)
       ELSE /\ sp' = sp
            /\ Done("operator=(&&)", i, j, Cur)
    /\ UNCHANGED wp

\* operator=(SharedPtr<Y>&& other), Y another type than T
SharedConvMoveAssign(i, j) ==
    /\ Running
    /\ sp[i].alive /\ sp[j].alive
    /\ TypeOf(i) = "Base" /\ TypeOf(j) = "Derived"
    /\ sp' = [sp EXCEPT
                ![i] = Handle(DynamicCast(sp[j].control_block_, TypeOf(j), TypeOf(i))),
                ![j] = Handle(Null)]
    /\ \E H \in Call(Cur, sp[i].control_block_, "decrease_shared_counter") :
         Done("operator=(<Y>&&)", i, j, Cast(H, sp[j].control_block_))
    /\ UNCHANGED wp

\* p = MakeShared<T>(args): the temporary the factory returns is move-assigned
\* to p and destroyed, empty, at the end of the statement.
SharedAssignMake(i) ==
    /\ Running
    /\ sp[i].alive
    /\ HasRoom
    /\ sp' = [sp EXCEPT ![i] = Handle(NextBlock)]
    /\ \E H \in Call(Allocate(Cur, NextBlock, TRUE), sp[i].control_block_,
                     "decrease_shared_counter") :
         Done("p = MakeShared", i, 0, H)
    /\ UNCHANGED wp

\* A variant of reset() that keeps control_block_.
SharedResetKeepingBlock(i) ==
    /\ Running
    /\ sp[i].alive
    /\ \E H \in Call(Cur, sp[i].control_block_, "decrease_shared_counter") :
         Done("reset", i, 0, H)
    /\ UNCHANGED <<sp, wp>>

\* reset()
SharedReset(i) ==
    /\ Running
    /\ sp[i].alive
    /\ sp' = [sp EXCEPT ![i] = Handle(Null)]
    /\ \E H \in Call(Cur, sp[i].control_block_, "decrease_shared_counter") :
         Done("reset", i, 0, H)
    /\ UNCHANGED wp

\* ~SharedPtr()
SharedDestroy(i) ==
    /\ Running
    /\ sp[i].alive
    /\ sp' = [sp EXCEPT ![i] = NoHandle]
    /\ \E H \in Call(Cur, sp[i].control_block_, "decrease_shared_counter") :
         Done("~SharedPtr", i, 0, H)
    /\ UNCHANGED wp

SharedNext ==
    \/ \E i \in SharedIds : SharedDefault(i)
    \/ \E i \in SharedIds, ptr \in BOOLEAN : SharedFromRaw(i, ptr)
    \/ \E i \in SharedIds : MakeShared(i)
    \/ \E i, j \in SharedIds : SharedCopy(i, j)
    \/ \E i, j \in SharedIds : SharedConvCopy(i, j)
    \/ \E i, j \in SharedIds : SharedMove(i, j)
    \/ \E i, j \in SharedIds : SharedConvMove(i, j)
    \/ \E i, j \in SharedIds : SharedCopyAssign(i, j)
    \/ \E i, j \in SharedIds : SharedConvCopyAssign(i, j)
    \/ \E i, j \in SharedIds : SharedMoveAssign(i, j)
    \/ \E i, j \in SharedIds : SharedConvMoveAssign(i, j)
    \/ \E i \in SharedIds : SharedAssignMake(i)
    \/ \E i \in SharedIds : SharedReset(i)
    \/ \E i \in SharedIds : SharedDestroy(i)

\* ---------------------------------------------------------------- WeakPtr

\* WeakPtr()
WeakDefault(w) ==
    /\ Running
    /\ FreshWeak(w)
    /\ wp' = [wp EXCEPT ![w] = Handle(Null)]
    /\ Done("WeakPtr()", w, 0, Cur)
    /\ UNCHANGED sp

\* WeakPtr(const SharedPtr<T>& other)
WeakFromShared(w, i) ==
    /\ Running
    /\ FreshWeak(w)
    /\ sp[i].alive
    /\ TypeOf(i) = "Base"
    /\ wp' = [wp EXCEPT ![w] = Handle(sp[i].control_block_)]
    /\ \E H \in Call(Cur, sp[i].control_block_, "increase_weak_count") :
         Done("WeakPtr(const SharedPtr&)", w, i, H)
    /\ UNCHANGED sp

\* WeakPtr(const WeakPtr& other): control_block_->increase_weak_count(), unguarded.
WeakCopy(w, v) ==
    /\ Running
    /\ FreshWeak(w)
    /\ wp[v].alive
    /\ wp' = [wp EXCEPT ![w] = Handle(wp[v].control_block_)]
    /\ IF wp[v].control_block_ = Null
       THEN Done("WeakPtr(const&)", w, v, NullCall(Cur))
       ELSE \E H \in Call(Cur, wp[v].control_block_, "increase_weak_count") :
              Done("WeakPtr(const&)", w, v, H)
    /\ UNCHANGED sp

\* WeakPtr(WeakPtr&& other)
WeakMove(w, v) ==
    /\ Running
    /\ FreshWeak(w)
    /\ wp[v].alive
    /\ wp' = [wp EXCEPT ![w] = Handle(wp[v].control_block_),
                        ![v] = Handle(Null)]
    /\ Done("WeakPtr(&&)", w, v, Cur)
    /\ UNCHANGED sp

\* operator=(const WeakPtr& other) = default: the member is copied.
WeakCopyAssign(w, v) ==
    /\ Running
    /\ wp[w].alive /\ wp[v].alive
    /\ wp' = [wp EXCEPT ![w] = Handle(wp[v].control_block_)]
    /\ Done("WeakPtr::operator=(const&)", w, v, Cur)
    /\ UNCHANGED sp

\* operator=(WeakPtr&& other): control_block_ = std::move(other.control_block_),
\* which copies a raw pointer and leaves other as it was.
WeakMoveAssign(w, v) ==
    /\ Running
    /\ wp[w].alive /\ wp[v].alive
    /\ wp' = [wp EXCEPT ![w] = Handle(wp[v].control_block_)]
    /\ Done("WeakPtr::operator=(&&)", w, v, Cur)
    /\ UNCHANGED sp

\* expired(): control_block_->shared_count == 0, unguarded.
expired(w) == blocks[wp[w].control_block_].shared_count = 0

WeakExpired(w) ==
    /\ Running
    /\ wp[w].alive
    /\ IF wp[w].control_block_ = Null
       THEN Done("expired", w, 0, NullCall(Cur))
       ELSE \E H \in Call(Cur, wp[w].control_block_, "Peek") : Done("expired", w, 0, H)
    /\ UNCHANGED <<sp, wp>>

\* The block of the handle lock() returns, given the fields f read from block cb:
\* SharedPtr<T>() or SharedPtr<T>(control_block_).
LockBlock(f, cb) == IF f.shared_count = 0 THEN Null ELSE cb

\* SharedPtr(BaseControlBlock<T>* control_block) : control_block_(control_block) {}
Adopt(f) == Effect(f, 0, 0)

\* auto p = w.lock()
WeakLock(w, i) ==
    /\ Running
    /\ wp[w].alive
    /\ FreshShared(i)
    /\ TypeOf(i) = "Base"
    /\ LET cb == wp[w].control_block_
       IN  IF cb = Null
           THEN /\ sp' = [sp EXCEPT ![i] = Handle(Null)]
                /\ Done("lock", i, w, Cur)
           ELSE \E f \in Read(blocks, cb) :
                  /\ sp' = [sp EXCEPT ![i] = Handle(LockBlock(f, cb))]
                  /\ Done("lock", i, w,
                          Commit(Cur, cb, IF LockBlock(f, cb) = Null THEN Peek(f) ELSE Adopt(f)))
    /\ UNCHANGED wp

\* ~WeakPtr()
WeakDestroy(w) ==
    /\ Running
    /\ wp[w].alive
    /\ wp' = [wp EXCEPT ![w] = NoHandle]
    /\ \E H \in Call(Cur, wp[w].control_block_, "decrease_weak_counter") :
         Done("~WeakPtr", w, 0, H)
    /\ UNCHANGED sp

WeakNext ==
    \/ \E w \in WeakIds : WeakDefault(w)
    \/ \E w \in WeakIds, i \in SharedIds : WeakFromShared(w, i)
    \/ \E w, v \in WeakIds : WeakCopy(w, v)
    \/ \E w, v \in WeakIds : WeakMove(w, v)
    \/ \E w, v \in WeakIds : WeakCopyAssign(w, v)
    \/ \E w, v \in WeakIds : WeakMoveAssign(w, v)
    \/ \E w \in WeakIds : WeakExpired(w)
    \/ \E w \in WeakIds, i \in SharedIds : WeakLock(w, i)
    \/ \E w \in WeakIds : WeakDestroy(w)

\* ------------------------------------------------------------- exceptions
\* The raw-pointer constructors.
Ctors == {"SharedPtr(ptr)", "SharedPtr(ptr, deleter)", "SharedPtr(ptr, deleter, alloc)"}

\* Heap H after allocate() handed out the storage at address b for a block that
\* is to own ptr.
AllocateRaw(H, b, ptr) ==
    Heap([H.blocks EXCEPT ![b] = Raw],
         [H.hist EXCEPT ![b].object = ptr],
         H.uaf, H.nullDeref)

\* A variant whose handler rethrows without calling the deleter.
CatchAndRethrow(H, b) == H

\* catch (...) { deleter(ptr); throw; }: the object the block at b was to own is
\* released by the deleter; the storage is not given back.
Catch(H, b) ==
    Heap(H.blocks, [H.hist EXCEPT ![b].release_shared = Sat(@ + 1)], H.uaf, H.nullDeref)

\* new ControlBlock(...) or allocate() throws in a raw-pointer constructor: none
\* of the three has a handler around the allocation.
SharedFromRawBadAlloc(i, ptr, ctor) ==
    /\ Running
    /\ FreshShared(i)
    /\ Thrown(ctor, i, Cur, Exception("allocate", Null, ptr, 0))

\* SharedPtr(Y* ptr, Deleter, Allocator): construct() throws in the storage
\* allocate() returned.
SharedFromRawThrows(i, ptr) ==
    /\ Running
    /\ FreshShared(i)
    /\ HasRoom
    /\ LET H == Catch(AllocateRaw(Cur, NextBlock, ptr), NextBlock)
       IN  Thrown("SharedPtr(ptr, deleter, alloc)", i, H,
                  Exception("construct", NextBlock, ptr,
                            H.hist[NextBlock].release_shared))

\* AllocateShared / MakeShared: allocate() throws.
MakeSharedBadAlloc(i) ==
    /\ Running
    /\ FreshShared(i)
    /\ Thrown("MakeShared", i, Cur, Exception("allocate", Null, FALSE, 0))

\* AllocateShared / MakeShared: construct() throws (the constructor of T) in the
\* storage allocate() returned; there is no handler.
MakeSharedThrows(i) ==
    /\ Running
    /\ FreshShared(i)
    /\ HasRoom
    /\ Thrown("MakeShared", i, AllocateRaw(Cur, NextBlock, FALSE),
              Exception("construct", NextBlock, FALSE, 0))

ThrowNext ==
    \/ \E i \in SharedIds, ptr \in BOOLEAN, ctor \in Ctors : SharedFromRawBadAlloc(i, ptr, ctor)
    \/ \E i \in SharedIds, ptr \in BOOLEAN : SharedFromRawThrows(i, ptr)
    \/ \E i \in SharedIds : MakeSharedBadAlloc(i)
    \/ \E i \in SharedIds : MakeSharedThrows(i)

Next == SharedNext \/ WeakNext

Spec == Init /\ [][Next]_vars

\* A client that uses no WeakPtr.
SpecShared == Init /\ [][SharedNext]_vars

\* A client of SharedPtr whose allocations and constructors may throw.
SpecThrow == Init /\ [][SharedNext \/ ThrowNext]_vars

\* ------------------------------------------------------------------ claims
\* The live SharedPtr / WeakPtr handles whose control_block_ is block b.
Holders(b) == {i \in SharedIds : sp[i].alive /\ sp[i].control_block_ = b}
WeakHolders(b) == {w \in WeakIds : wp[w].alive /\ wp[w].control_block_ = b}

Created(b) == blocks[b].st # "unallocated"
Live(b) == blocks[b].st = "live"

AllDestroyed == (\A i \in SharedIds : ~sp[i].alive) /\ (\A w \in WeakIds : ~wp[w].alive)

MoveOps == {"SharedPtr(&&)", "SharedPtr(<Y>&&)", "operator=(&&)", "operator=(<Y>&&)"}
AssignOps == {"operator=(const&)", "operator=(const<Y>&)", "operator=(&&)", "operator=(<Y>&&)"}
SelfAssignOps == {"operator=(const&)", "operator=(&&)"}

\* C1: with SharedPtr operations only, a block created for a non-null object has
\* had release_shared called exactly once when no strong handle references it any
\* more, and not at all while one does.
C1_ReleaseObjectOnce ==
    \A b \in Blocks :
        (Created(b) /\ hist[b].object) =>
            hist[b].release_shared = (IF Holders(b) = {} THEN 1 ELSE 0)

\* C2: in a run without undefined operation, release_weak is called at most once
\* on a block and never before release_shared, and once every handle is destroyed
\* it has been called exactly once on every block that was created.
C2_ReleaseBlockOnce ==
    Defined =>
        \A b \in Blocks :
            Created(b) =>
                /\ hist[b].release_weak <= 1
                /\ hist[b].release_weak = 1 => hist[b].release_shared >= 1
                /\ AllDestroyed => hist[b].release_weak = 1

\* C3: no live handle references a freed block, and no operation reads or writes
\* one.
C3_NoObserverOfFreedBlock ==
    /\ ~last.uaf
    /\ \A b \in Blocks :
         blocks[b].st = "freed" => (Holders(b) = {} /\ WeakHolders(b) = {})

\* C4: lock() on a null block or a block with shared_count 0 returns an empty
\* handle and changes no counter; otherwise the handle returned references the
\* block and shared_count is one greater than before.
C4_LockAddsOne ==
    [][\A w \in WeakIds, i \in SharedIds :
         (last'.op = "lock" /\ last'.src = w /\ last'.dst = i /\ ~last'.uaf) =>
            LET cb == wp[w].control_block_
            IN  IF cb = Null \/ blocks[cb].shared_count = 0
                THEN sp'[i] = Handle(Null) /\ blocks' = blocks
                ELSE /\ sp'[i] = Handle(cb)
                     /\ blocks'[cb].shared_count = (blocks[cb].shared_count + 1) % Modulus
                     /\ blocks'[cb].weak_count = blocks[cb].weak_count]_vars

\* C5: the shared_count of a block not released is the number of live SharedPtr
\* handles referencing it, and use_count() of each of them returns that number.
C5_SharedCountIsHandles ==
    \A b \in Blocks :
        Live(b) =>
            /\ blocks[b].shared_count = Cardinality(Holders(b))
            /\ \A i \in Holders(b) : use_count(i) = Cardinality(Holders(b))

\* C6: the weak_count of a block not released is the number of live WeakPtr
\* handles referencing it.
C6_WeakCountIsHandles ==
    \A b \in Blocks : Live(b) => blocks[b].weak_count = Cardinality(WeakHolders(b))

\* Block b is held by SharedPtr i and WeakPtr w and by nothing else, each with its
\* unit of the counters, and its object is not released.
OnePair(b, i, w) ==
    /\ Live(b)
    /\ Holders(b) = {i} /\ WeakHolders(b) = {w}
    /\ blocks[b].shared_count = 1 /\ blocks[b].weak_count = 1
    /\ hist[b].release_shared = 0

\* Block b after the SharedPtr of such a pair is gone: w is its only handle.
Outlived(b, w) ==
    /\ Live(b)
    /\ Holders(b) = {} /\ WeakHolders(b) = {w}
    /\ blocks[b].shared_count = 0 /\ blocks[b].weak_count = 1
    /\ hist[b].release_shared = 1 /\ hist[b].release_weak = 0

\* C7: of one SharedPtr and one WeakPtr on a block, destroying or resetting the
\* SharedPtr calls release_shared and not release_weak and leaves the WeakPtr
\* expired; expired() and lock() on it then touch nothing, lock() returning an
\* empty handle; destroying the WeakPtr then calls release_weak once, on a block
\* not freed before.
C7_WeakSurvivesStrong ==
    [][\A b \in Blocks, w \in WeakIds :
         /\ (last'.op \in {"~SharedPtr", "reset"} /\ OnePair(b, last'.dst, w)) =>
                 /\ hist'[b].release_shared = 1 /\ hist'[b].release_weak = 0
                 /\ ~last'.uaf
                 /\ Outlived(b, w)'
                 /\ expired(w)'
         /\ (last'.op = "expired" /\ last'.dst = w /\ Outlived(b, w)) =>
                 /\ expired(w)
                 /\ ~last'.uaf /\ ~last'.nullDeref
                 /\ blocks' = blocks /\ hist' = hist
         /\ (last'.op = "lock" /\ last'.src = w /\ Outlived(b, w)) =>
                 /\ sp'[last'.dst] = Handle(Null)
                 /\ ~last'.uaf
                 /\ blocks' = blocks /\ hist' = hist
         /\ (last'.op = "~WeakPtr" /\ last'.dst = w /\ Outlived(b, w)) =>
                 /\ hist'[b].release_weak = 1 /\ hist'[b].release_shared = 1
                 /\ blocks'[b].st = "freed"
                 /\ ~last'.uaf]_vars

\* C7 witness: the SharedPtr of such a pair has just been destroyed or reset, and
\* the WeakPtr outlives the object.
C7_Witness ==
    /\ last.op \in {"~SharedPtr", "reset"}
    /\ \E b \in Blocks, w \in WeakIds : Outlived(b, w) /\ hist[b].object

\* C8: a move construction or move assignment of b from another handle a leaves a
\* empty (get() null, use_count() 0) and b on the block a referenced, whose
\* shared_count is as before.
C8_MoveKeepsCount ==
    [][\A a, b \in SharedIds :
         (last'.op \in MoveOps /\ last'.src = a /\ last'.dst = b /\ a # b /\ ~last'.uaf) =>
            LET cb == sp[a].control_block_
            IN  /\ get(a)' = FALSE
                /\ use_count(a)' = 0
                /\ sp'[b].control_block_ = cb
                /\ (cb # Null /\ Live(cb)) => blocks'[cb] = blocks[cb]]_vars

\* C9: an assignment of a SharedPtr to itself changes neither use_count() nor
\* get(), leaves a non-empty handle non-empty, and calls neither release_shared
\* nor release_weak.
C9_SelfAssignNoOp ==
    [][\A i \in SharedIds :
         (last'.op \in SelfAssignOps /\ last'.dst = i /\ last'.src = i) =>
            /\ use_count(i)' = use_count(i)
            /\ get(i)' = get(i)
            /\ sp'[i] = sp[i]
            /\ blocks' = blocks
            /\ hist' = hist
            /\ ~last'.uaf]_vars

\* C9 witness: the only handle of a block has just been copy-assigned to itself.
C9_Witness ==
    /\ last.op = "operator=(const&)"
    /\ last.dst = last.src
    /\ sp[last.dst].control_block_ # Null
    /\ Live(sp[last.dst].control_block_)
    /\ use_count(last.dst) = 1

\* C10: an assignment, by copy or by move, of a handle on block B to a SharedPtr on
\* another block A takes one from A's shared_count, calls release_shared on A when
\* that reaches 0 (and release_weak when weak_count is 0 too), and leaves the
\* target on B.
C10_AssignReleasesOne ==
    [][\A i, j \in SharedIds :
         (last'.op \in AssignOps /\ last'.dst = i /\ last'.src = j /\ i # j) =>
            LET A == sp[i].control_block_
                B == sp[j].control_block_
            IN  (A # Null /\ B # Null /\ A # B /\ Live(A) /\ Live(B)) =>
                  /\ sp'[i].control_block_ = B
                  /\ hist'[A].release_shared =
                       Sat(hist[A].release_shared
                           + (IF blocks[A].shared_count = 1 THEN 1 ELSE 0))
                  /\ IF blocks[A].shared_count = 1 /\ blocks[A].weak_count = 0
                     THEN blocks'[A].st = "freed" /\ hist'[A].release_weak = 1
                     ELSE /\ blocks'[A].st = "live"
                          /\ hist'[A].release_weak = 0
                          /\ blocks'[A].shared_count =
                               (blocks[A].shared_count + Modulus - 1) % Modulus]_vars

\* C11: when a constructor throws in storage just allocated (the object's, in
\* MakeShared / AllocateShared; the control block's, in SharedPtr(ptr, deleter,
\* alloc)), the storage has been deallocated when the exception reaches the
\* client, and no handle references it.
C11_FailedConstructionDeallocates ==
    exc.at = "construct" =>
        /\ blocks[exc.block].st = "freed"
        /\ Holders(exc.block) = {} /\ WeakHolders(exc.block) = {}

\* C12: when the allocation of the control block throws in a raw-pointer
\* constructor given a non-null pointer, the deleter has been called exactly once
\* on the pointer when the exception reaches the client, and the handle was not
\* constructed.
C12_BadAllocDeletesPointer ==
    (exc.at = "allocate" /\ last.op \in Ctors /\ exc.ptr) =>
        /\ exc.deleter = 1
        /\ ~sp[last.dst].alive

\* C13: when construct() throws in SharedPtr(ptr, deleter, alloc), the deleter has
\* been called exactly once on ptr when the exception reaches the client, no
\* handle was constructed, and no later operation calls it for that pointer again.
C13_ConstructFailureDeletesOnce ==
    [][/\ (exc'.at = "construct" /\ last'.op = "SharedPtr(ptr, deleter, alloc)") =>
            /\ exc'.deleter = 1
            /\ hist'[exc'.block].release_shared = 1
            /\ sp' = sp
            /\ \A j \in SharedIds : sp'[j].control_block_ # exc'.block
       /\ \A b \in Blocks :
            blocks[b].st = "raw" =>
                /\ blocks'[b] = blocks[b]
                /\ hist'[b].release_shared = hist[b].release_shared]_vars

\* C13 witness: construct() has just thrown for a non-null pointer, and the deleter
\* ran once for it.
C13_Witness ==
    /\ exc.at = "construct"
    /\ last.op = "SharedPtr(ptr, deleter, alloc)"
    /\ exc.ptr /\ hist[exc.block].object
    /\ hist[exc.block].release_shared = 1

\* C14: expired() never calls through a null control_block_, whatever the state
\* of the WeakPtr (default-constructed and moved-from ones included), and of a
\* non-empty one it returns whether shared_count is 0.
C14_ExpiredOnAnyHandle ==
    [][\A w \in WeakIds :
         (last'.op = "expired" /\ last'.dst = w) =>
            /\ ~last'.nullDeref
            /\ (wp[w].control_block_ # Null /\ Live(wp[w].control_block_)) =>
                  (expired(w) <=> blocks[wp[w].control_block_].shared_count = 0)]_vars

\* C15: a move construction or move assignment of WeakPtr b from another WeakPtr a
\* leaves a empty and b on the block a referenced, whose counters are as before.
C15_WeakMoveEmptiesSource ==
    [][\A a, b \in WeakIds :
         (last'.op \in {"WeakPtr(&&)", "WeakPtr::operator=(&&)"}
            /\ last'.src = a /\ last'.dst = b /\ a # b /\ ~last'.uaf) =>
            LET cb == wp[a].control_block_
            IN  /\ wp'[a].control_block_ = Null
                /\ wp'[b].control_block_ = cb
                /\ (cb # Null /\ Live(cb)) =>
                      /\ blocks'[cb].weak_count = blocks[cb].weak_count
                      /\ blocks'[cb].shared_count = blocks[cb].shared_count]_vars

\* C16: of a block created for an object and not freed, while shared_count > 0 the
\* pointer is non-null and the object is not released, and get() of every
\* SharedPtr on the block is non-null.
C16_PointerValidWhileShared ==
    \A b \in Blocks :
        (Live(b) /\ hist[b].object) =>
            /\ blocks[b].shared_count > 0 =>
                  (blocks[b].pointer /\ hist[b].release_shared = 0)
            /\ \A i \in Holders(b) : get(i)

\* C17: reset() leaves the handle empty (get() null, use_count() 0) and no other
\* handle changed; of an empty handle it changes nothing else; of a handle on a
\* block not freed it takes one from shared_count (modulo 2^CountBits), calls
\* release_shared when that reaches 0, and release_weak when weak_count is 0 too.
C17_ResetReleasesOnce ==
    [][\A i \in SharedIds :
         (last'.op = "reset" /\ last'.dst = i) =>
            LET cb == sp[i].control_block_
                n  == (blocks[cb].shared_count + Modulus - 1) % Modulus
            IN  /\ sp'[i] = Handle(Null)
                /\ get(i)' = FALSE /\ use_count(i)' = 0
                /\ \A j \in SharedIds \ {i} : sp'[j] = sp[j]
                /\ wp' = wp
                /\ cb = Null => (blocks' = blocks /\ hist' = hist)
                /\ (cb # Null /\ Live(cb)) =>
                      /\ \A c \in Blocks \ {cb} : blocks'[c] = blocks[c] /\ hist'[c] = hist[c]
                      /\ hist'[cb].release_shared =
                            Sat(hist[cb].release_shared + (IF n = 0 THEN 1 ELSE 0))
                      /\ IF n = 0 /\ blocks[cb].weak_count = 0
                         THEN /\ blocks'[cb].st = "freed"
                              /\ hist'[cb].release_weak = Sat(hist[cb].release_weak + 1)
                         ELSE /\ blocks'[cb] =
                                   [blocks[cb] EXCEPT !.shared_count = n,
                                                      !.pointer = IF n = 0 THEN FALSE ELSE @]
                              /\ hist'[cb].release_weak = hist[cb].release_weak]_vars

\* C17 witness: reset() has just been called on the only handle of an object, the
\* third operation of the run: the handle is empty, the object and its block
\* released once.
C17_Witness ==
    /\ last.op = "reset"
    /\ sp[last.dst] = Handle(Null)
    /\ ops = 3
    /\ \E b \in Blocks :
         /\ hist[b].object /\ blocks[b].st = "freed"
         /\ hist[b].release_shared = 1 /\ hist[b].release_weak = 1
    /\ \A j \in SharedIds \ {last.dst} : ~sp[j].alive
    /\ \A w \in WeakIds : ~wp[w].alive

\* C18: a block created for an object and not freed whose shared_count is 0 has a
\* null pointer, its object released by exactly one call of release_shared.
C18_ZeroCountMeansReleasedOnce ==
    \A b \in Blocks :
        (Live(b) /\ hist[b].object /\ blocks[b].shared_count = 0) =>
            (~blocks[b].pointer /\ hist[b].release_shared = 1)

WeakOps == {"WeakPtr()", "WeakPtr(const SharedPtr&)", "WeakPtr(const&)", "WeakPtr(&&)",
            "WeakPtr::operator=(const&)", "WeakPtr::operator=(&&)", "expired", "~WeakPtr"}

\* C19: no WeakPtr construction, copy, move, assignment, expired() or destruction
\* calls release_shared, changes a shared_count or a pointer, or changes a
\* SharedPtr; only ~WeakPtr calls release_weak, and then on a block whose
\* shared_count is 0 and whose last weak unit it gives back.
C19_WeakOpsLeaveObject ==
    [][last'.op \in WeakOps =>
         /\ sp' = sp
         /\ \A b \in Blocks :
              /\ hist'[b].release_shared = hist[b].release_shared
              /\ Created(b)' = Created(b)
              /\ (Live(b) /\ Live(b)') =>
                    /\ blocks'[b].shared_count = blocks[b].shared_count
                    /\ blocks'[b].pointer = blocks[b].pointer
                    /\ hist'[b].release_weak = hist[b].release_weak
              /\ (Live(b) /\ ~Live(b)') =>
                    /\ last'.op = "~WeakPtr"
                    /\ blocks[b].shared_count = 0 /\ blocks[b].weak_count = 1
                    /\ ~blocks[b].pointer
                    /\ hist'[b].release_weak = Sat(hist[b].release_weak + 1)
              /\ last'.op # "~WeakPtr" => hist'[b].release_weak = hist[b].release_weak]_vars

\* C19 witness: a WeakPtr has just been constructed from the only SharedPtr of an
\* object: the block has its weak unit, and its object and shared_count as before.
C19_Witness ==
    /\ last.op = "WeakPtr(const SharedPtr&)"
    /\ \E b \in Blocks :
         /\ wp[last.dst].control_block_ = b /\ sp[last.src].control_block_ = b
         /\ Live(b) /\ hist[b].object /\ blocks[b].pointer
         /\ blocks[b].shared_count = 1 /\ blocks[b].weak_count = 1
         /\ hist[b].release_shared = 0

\* C20: no step takes a counter of a block created for an object and not freed
\* from 0 to 2^CountBits - 1.
C20_CountersNeverUnderflow ==
    [][\A b \in Blocks :
         (Live(b) /\ Live(b)' /\ hist[b].object) =>
            /\ ~(blocks[b].shared_count = 0 /\ blocks'[b].shared_count = Modulus - 1)
            /\ ~(blocks[b].weak_count = 0 /\ blocks'[b].weak_count = Modulus - 1)]_vars

====
